---- MODULE Spec2Model ----
(***************************************************************************)
(* Verification model of news-streamlit/streamlit_app.py: the two source   *)
(* adapters (fetch_hn, fetch_reddit) behind their TTL cache, the scorer    *)
(* (time_decay_score, normalize_points), aggregate with its de-duplication,*)
(* the error split, the keyword filters, the sort and the pagination.      *)
(*                                                                         *)
(* Conventions.  Times are seconds since the epoch.  A score is kept in    *)
(* hundredths of a point (100.0 points = 10000).  A Python str that the    *)
(* code slices, strips, splits or searches is a sequence of one-character  *)
(* strings; a str that the code only builds by concatenation (urls and     *)
(* messages) is a sequence of its pieces.  Python None is a record whose   *)
(* field some is FALSE.  A call that raises is an outcome "raised".        *)
(***************************************************************************)
EXTENDS Integers, Sequences, FiniteSets, TLC

VARIABLES
    now,          \* datetime.now(timezone.utc) at the moment of scoring
    pc,           \* position of the run that the specification describes
    s_dt,         \* scorer: argument of time_decay_score
    s_points,     \* scorer: argument of normalize_points
    s_out,        \* scorer: outcome of the call
    f_src,        \* adapter call: "hn" or the subreddit
    f_resp,       \* adapter call: what the HTTP exchange gave
    f_result,     \* adapter call: what the adapter returned, or that it raised
    category,     \* sidebar: the selected category
    user_subs,    \* sidebar: the selected subreddits, in order
    enable_hn,    \* sidebar: the Hacker News toggle
    enable_reddit,\* sidebar: the Reddit toggle
    a_resp,       \* the HTTP exchange of every source that aggregate fetched
    a_raised,     \* aggregate raised (the name of the exception, "" if none)
    items,        \* the list named items in the script
    errors,       \* the list named errors in the script
    cache,        \* st.cache_data: per key, the entry and the time it was written
    lock,         \* st.cache_data: per key, the session that computes the value
    sess,         \* per session: where its cached call stands, and for which key
    calls,        \* history: the number of outbound HTTP calls, per key
    entries,      \* history: the entries ever written, per key
    served,       \* per session: the result its last call handed back, and when
    include_kw,   \* sidebar: the include keywords
    exclude_kw,   \* sidebar: the exclude keywords
    sort_by,      \* sidebar: the sort mode
    page_size,    \* sidebar: the page size
    page,         \* sidebar: the page number
    q_in,         \* history: items as the stage that ran last found it
    q_raised,     \* the exception the stage raised ("" if none)
    total,        \* the number named total in the script
    page_items    \* the list named page_items in the script

vars == <<now, pc, s_dt, s_points, s_out, f_src, f_resp, f_result,
          category, user_subs, enable_hn, enable_reddit, a_resp, a_raised, items, errors,
          cache, lock, sess, calls, entries, served,
          include_kw, exclude_kw, sort_by, page_size, page, q_in, q_raised, total, page_items>>
cacheVars == <<cache, lock, sess, calls, entries, served>>
queryVars == <<include_kw, exclude_kw, sort_by, page_size, page, q_in, q_raised, total,
               page_items>>
aggVars == <<category, user_subs, enable_hn, enable_reddit, a_resp, a_raised, items, errors>>
scoreVars == <<s_dt, s_points, s_out>>
fetchVars == <<f_src, f_resp, f_result>>

Min(a, b) == IF a < b THEN a ELSE b
Max(a, b) == IF a > b THEN a ELSE b

RECURSIVE Pow(_, _)
Pow(b, e) == IF e = 0 THEN 1 ELSE b * Pow(b, e - 1)

(***************************************************************************)
(* datetime | None                                                         *)
(***************************************************************************)
NoneDt == [some |-> FALSE, t |-> 0, aware |-> FALSE]
\* an aware datetime denotes the instant t; a naive one the wall clock t
AwareDt(t) == [some |-> TRUE, t |-> t, aware |-> TRUE]
NaiveDt(t) == [some |-> TRUE, t |-> t, aware |-> FALSE]

Hour == 3600
Day == 24 * Hour

(***************************************************************************)
(* math.exp(-age_hours / 24.0) * 100.0, in hundredths of a point.          *)
(* IEEE doubles: exp(x) raises OverflowError for x > 709.78 and is 0.0 for *)
(* x < -745.13.  In between the value is computed in fixed point, one      *)
(* factor e^(-1/24) = 0.9592 per hour of age; the resolution of 0.01 point *)
(* is exact enough for ages of a few days, which is what the inputs use.   *)
(***************************************************************************)
RECURSIVE DecayPast(_)
DecayPast(h) == IF h = 0 THEN 10000 ELSE (DecayPast(h - 1) * 9592) \div 10000

RECURSIVE DecayFuture(_)
DecayFuture(h) == IF h = 0 THEN 10000 ELSE (DecayFuture(h - 1) * 10000) \div 9592

ExpOverflows(age) == age < 0 /\ (-age) \div Day >= 710
ExpUnderflows(age) == age > 0 /\ age \div Day >= 746

Exp100(age) ==
    IF ExpUnderflows(age) THEN 0
    ELSE IF age >= 0 THEN DecayPast(age \div Hour)
    ELSE DecayFuture((-age) \div Hour)

\* time_decay_score: [raised |-> BOOLEAN, v |-> hundredths]
time_decay_score(dt, nowT) ==
    IF ~dt.some THEN [raised |-> FALSE, v |-> 0]
    ELSE LET age == nowT - dt.t      \* a naive dt is taken as UTC (line 33)
         IN  IF ExpOverflows(age) THEN [raised |-> TRUE, v |-> 0]
             ELSE [raised |-> FALSE, v |-> Exp100(age)]

(***************************************************************************)
(* math.log10(max(points, 1)) * 100.0, in hundredths of a point: the       *)
(* integer part from the decimal exponent, twelve binary digits of the     *)
(* fraction by repeated squaring of the mantissa (error below 0.1 point).  *)
(***************************************************************************)
RECURSIVE DecExp(_)
DecExp(p) == IF p < 10 THEN 0 ELSE 1 + DecExp(p \div 10)

RECURSIVE Log10Frac(_, _)
Log10Frac(m, i) ==
    IF i > 12 THEN 0
    ELSE LET sq == (m * m) \div 1000
         IN  IF sq >= 10000 THEN Pow(2, 12 - i) + Log10Frac(sq \div 10, i + 1)
             ELSE Log10Frac(sq, i + 1)

Log10x100(p) ==
    LET k == DecExp(p)
        m == (p * 1000) \div Pow(10, k)
    IN  10000 * k + (10000 * Log10Frac(m, 1)) \div 4096

\* points is [some, n]: int | None
NoneInt == [some |-> FALSE, n |-> 0]
SomeInt(n) == [some |-> TRUE, n |-> n]

normalize_points(points) ==
    IF ~points.some \/ points.n = 0 THEN 0
    ELSE Log10x100(Max(points.n, 1))

(***************************************************************************)
(* Articles.  A dict of the program is a record with every key the code    *)
(* reads; a key the dict does not hold reads as None, as dict.get does.    *)
(* kind = "error" is a dict that holds the key "__error__".                *)
(***************************************************************************)
NoneStr == [some |-> FALSE, s |-> <<>>]
SomeStr(s) == [some |-> TRUE, s |-> s]
NoneScore == [some |-> FALSE, v |-> 0]

Article(title, url, source, points, comments, author, published_at) ==
    [kind |-> "article", error |-> <<>>, title |-> SomeStr(title), url |-> SomeStr(url),
     source |-> source, points |-> SomeInt(points), comments |-> comments,
     author |-> author, published_at |-> published_at,
     score |-> NoneScore, category |-> ""]

ErrorMarker(msg) ==
    [kind |-> "error", error |-> msg, title |-> NoneStr, url |-> NoneStr,
     source |-> <<>>, points |-> NoneInt, comments |-> 0,
     author |-> NoneStr, published_at |-> NoneDt,
     score |-> NoneScore, category |-> ""]

\* a.get("title") or ""   and   a.get("title", "")
TitleOf(a) == IF a.title.some THEN a.title.s ELSE <<>>

(***************************************************************************)
(* JSON values the adapters read.  A text field is None (key missing or    *)
(* null) or a str; a number field is None, an int, a str holding an int    *)
(* ("numstr") or a str that holds none ("badstr").                         *)
(***************************************************************************)
NoneNum == [kind |-> "none", n |-> 0]
IntNum(n) == [kind |-> "int", n |-> n]
NumStr(n) == [kind |-> "numstr", n |-> n]
BadNum == [kind |-> "badstr", n |-> 0]

\* x or y on number fields: None and 0 are falsy, a non-empty str is truthy
NumTruthy(f) == f.kind \in {"badstr", "numstr"} \/ (f.kind = "int" /\ f.n # 0)
\* int(x) raises ValueError on a str that holds no integer
IntRaises(f) == f.kind = "badstr"
IntOf(f) == IF f.kind \in {"int", "numstr"} THEN f.n ELSE 0

StrTruthy(f) == f.some /\ f.s # <<>>
\* the text an f-string gives for a field
FmtStr(f) == IF f.some THEN f.s ELSE <<"None">>

(***************************************************************************)
(* parse_dt_iso.  An ISO string is its wall-clock reading and its suffix:  *)
(* "Z", an offset, nothing (a naive time) or text that is no ISO time.     *)
(***************************************************************************)
NoneIso == [kind |-> "none", wall |-> 0, sfx |-> ""]
IsoStr(wall, sfx) == [kind |-> "str", wall |-> wall, sfx |-> sfx]
EmptyIso == [kind |-> "str", wall |-> 0, sfx |-> "empty"]
NumberIso == [kind |-> "number", wall |-> 5, sfx |-> ""]

parse_dt_iso(s) ==
    IF s.kind = "none" \/ (s.kind = "str" /\ s.sfx = "empty") THEN NoneDt
    ELSE IF s.kind # "str" THEN NoneDt              \* s.endswith raises, caught
    ELSE LET sfx == IF s.sfx = "Z" THEN "+00:00" ELSE s.sfx
         IN  IF sfx = "+00:00" THEN AwareDt(s.wall)
             ELSE IF sfx = "+01:00" THEN AwareDt(s.wall - Hour)
             ELSE IF sfx = "" THEN NaiveDt(s.wall)
             ELSE NoneDt                            \* fromisoformat raises, caught

(***************************************************************************)
(* The HTTP exchange of an adapter: the request fails (no connection,      *)
(* timeout, non-2xx status, a body that is not JSON) or yields a JSON body.*)
(***************************************************************************)
FailKinds == {"ConnectError", "ReadTimeout", "HTTPStatusError", "JSONDecodeError"}

Returned(list) == [raised |-> FALSE, exc |-> "", list |-> list]
Raised(exc) == [raised |-> TRUE, exc |-> exc, list |-> <<>>]

HNHit(isDict, url, title, points, num_comments, author, objectID, created_at) ==
    [isDict |-> isDict, url |-> url, title |-> title, points |-> points,
     num_comments |-> num_comments, author |-> author, objectID |-> objectID,
     created_at |-> created_at]

NoTitle == <<"(", "n", "o", " ", "t", "i", "t", "l", "e", ")">>

HNArticle(h) ==
    Article(IF StrTruthy(h.title) THEN h.title.s ELSE NoTitle,
            IF StrTruthy(h.url) THEN h.url.s
            ELSE <<"https://news.ycombinator.com/item?id=">> \o FmtStr(h.objectID),
            <<"Hacker News">>,
            IntOf(h.points), IntOf(h.num_comments), h.author,
            parse_dt_iso(h.created_at))

HNHitRaises(h) == ~h.isDict \/ IntRaises(h.points) \/ IntRaises(h.num_comments)

\* body: [shape, hits: [kind, items]]
fetch_hn(resp) ==
    IF resp.kind # "json"
    THEN Returned(<<ErrorMarker(<<"HN fetch failed: ", resp.kind>>)>>)
    ELSE IF resp.body.shape # "object" THEN Raised("AttributeError")
    ELSE IF resp.body.hits.kind = "absent" THEN Returned(<<>>)
    ELSE IF resp.body.hits.kind = "null" THEN Raised("TypeError")
    ELSE LET hits == resp.body.hits.items
         IN  IF \E i \in 1..Len(hits) : HNHitRaises(hits[i])
             THEN LET i == CHOOSE j \in 1..Len(hits) :
                               /\ HNHitRaises(hits[j])
                               /\ \A k \in 1..(j - 1) : ~HNHitRaises(hits[k])
                  IN  Raised(IF hits[i].isDict THEN "ValueError" ELSE "AttributeError")
             ELSE Returned([i \in 1..Len(hits) |-> HNArticle(hits[i])])

(***************************************************************************)
(* fetch_reddit                                                            *)
(***************************************************************************)
\* child: [isDict, data: "absent" | "null" | "object", and the keys of data]
RedditChild(isDict, data, title, url_overridden_by_dest, url, permalink, ups, score, num_comments, author, created_utc) ==
    [isDict |-> isDict, data |-> data, title |-> title,
     url_overridden_by_dest |-> url_overridden_by_dest, url |-> url,
     permalink |-> permalink, ups |-> ups, score |-> score,
     num_comments |-> num_comments, author |-> author, created_utc |-> created_utc]

\* permalink: [kind: "absent" | "null" | "str", s]; d.get('permalink', '')
PermalinkText(p) ==
    IF p.kind = "absent" THEN <<>> ELSE IF p.kind = "null" THEN <<"None">> ELSE p.s

\* created_utc -> datetime.fromtimestamp(float(cu), tz=utc), None when falsy
\* or when float() or fromtimestamp() raise
CreatedUtcDt(cu) ==
    IF ~NumTruthy(cu) THEN NoneDt
    ELSE IF cu.kind = "badstr" THEN NoneDt
    ELSE AwareDt(cu.n)

RedditPoints(d) == IF NumTruthy(d.ups) THEN d.ups ELSE IF NumTruthy(d.score) THEN d.score ELSE IntNum(0)

RedditArticle(c, sub) ==
    Article(IF StrTruthy(c.title) THEN c.title.s ELSE NoTitle,
            IF StrTruthy(c.url_overridden_by_dest) THEN c.url_overridden_by_dest.s
            ELSE IF StrTruthy(c.url) THEN c.url.s
            ELSE <<"https://reddit.com">> \o PermalinkText(c.permalink),
            <<"r/", sub>>,
            IntOf(RedditPoints(c)), IntOf(c.num_comments), c.author,
            CreatedUtcDt(c.created_utc))

RedditChildRaises(c) ==
    \/ ~c.isDict
    \/ c.data = "null"
    \/ IntRaises(RedditPoints(c))
    \/ IntRaises(c.num_comments)

\* a child without "data" reads every key of {} as None
AbsentData(c) ==
    RedditChild(TRUE, "absent", NoneStr, NoneStr, NoneStr, [kind |-> "absent", s |-> <<>>],
                NoneNum, NoneNum, NoneNum, NoneStr, NoneNum)

\* body: [shape, data: "absent" | "null" | "object", children: [kind, items]]
fetch_reddit(sub, resp) ==
    IF resp.kind # "json"
    THEN Returned(<<ErrorMarker(<<"r/", sub, " fetch failed: ", resp.kind>>)>>)
    ELSE IF resp.body.shape # "object" THEN Raised("AttributeError")
    ELSE IF resp.body.data = "absent" THEN Returned(<<>>)
    ELSE IF resp.body.data = "null" THEN Raised("AttributeError")
    ELSE IF resp.body.children.kind = "absent" THEN Returned(<<>>)
    ELSE IF resp.body.children.kind = "null" THEN Raised("TypeError")
    ELSE LET raw == resp.body.children.items
             kids == [i \in 1..Len(raw) |->
                          IF raw[i].isDict /\ raw[i].data = "absent"
                          THEN AbsentData(raw[i]) ELSE raw[i]]
         IN  IF \E i \in 1..Len(kids) : RedditChildRaises(kids[i])
             THEN LET i == CHOOSE j \in 1..Len(kids) :
                               /\ RedditChildRaises(kids[j])
                               /\ \A k \in 1..(j - 1) : ~RedditChildRaises(kids[k])
                  IN  Raised(IF ~kids[i].isDict \/ kids[i].data = "null"
                             THEN "AttributeError" ELSE "ValueError")
             ELSE Returned([i \in 1..Len(kids) |-> RedditArticle(kids[i], sub)])

(***************************************************************************)
(* aggregate                                                               *)
(***************************************************************************)
FailResp(k) == [kind |-> k, body |-> [shape |-> "none", data |-> "absent",
                                      list |-> [kind |-> "absent", items |-> <<>>]]]
\* a JSON body: the top-level shape, for Reddit whether "data" is there, and
\* the value under "hits" (HN) or "children" (Reddit)
JsonResp(shape, data, kind, elems) ==
    [kind |-> "json", body |-> [shape |-> shape, data |-> data,
                                 list |-> [kind |-> kind, items |-> elems]]]

HNBody(resp) == [kind |-> resp.kind,
                 body |-> [shape |-> resp.body.shape, hits |-> resp.body.list]]
RedditBody(resp) == [kind |-> resp.kind,
                     body |-> [shape |-> resp.body.shape, data |-> resp.body.data,
                               children |-> resp.body.list]]

KeyTitleLen == 80

\* the adapter calls of lines 139-145, in order: each subreddit, then HN
\* Hacker News fetched before the subreddits
SourcesHNFirst(hn, reddit, subs) ==
    (IF hn THEN <<"hn">> ELSE <<>>) \o (IF reddit THEN subs ELSE <<>>)

SourcesOf(hn, reddit, subs) ==
    (IF reddit THEN subs ELSE <<>>) \o (IF hn THEN <<"hn">> ELSE <<>>)

FetchOf(src, resp) ==
    IF src = "hn" THEN fetch_hn(HNBody(resp)) ELSE fetch_reddit(src, RedditBody(resp))

\* articles after the extend calls; a raising adapter ends aggregate
RECURSIVE Extend(_, _, _)
Extend(srcs, resp, i) ==
    IF i > Len(srcs) THEN Returned(<<>>)
    ELSE LET r == FetchOf(srcs[i], resp[srcs[i]])
         IN  IF r.raised THEN r
             ELSE LET rest == Extend(srcs, resp, i + 1)
                  IN  IF rest.raised THEN rest ELSE Returned(r.list \o rest.list)

\* lines 148-150
ScoreRaises(a, nowT) == time_decay_score(a.published_at, nowT).raised
Scored(a, cat, nowT) ==
    [a EXCEPT !.score = [some |-> TRUE,
                         v |-> normalize_points(a.points)
                               + time_decay_score(a.published_at, nowT).v],
              !.category = cat]

\* title[:80]
Prefix(q, n) == SubSeq(q, 1, Min(n, Len(q)))
\* a key over the whole title
KeyWholeTitle(a) == <<a.url, TitleOf(a)>>
Key(a) == <<a.url, Prefix(TitleOf(a), KeyTitleLen)>>

\* lines 153-160
RECURSIVE Dedup(_, _, _)
Dedup(articles, i, seen) ==
    IF i > Len(articles) THEN <<>>
    ELSE IF Key(articles[i]) \in seen THEN Dedup(articles, i + 1, seen)
    ELSE <<articles[i]>> \o Dedup(articles, i + 1, seen \cup {Key(articles[i])})

aggregate(cat, hn, reddit, subs, resp, nowT) ==
    LET ext == Extend(SourcesOf(hn, reddit, subs), resp, 1)
    IN  IF ext.raised THEN ext
        ELSE IF \E i \in 1..Len(ext.list) : ScoreRaises(ext.list[i], nowT)
        THEN Raised("OverflowError")
        ELSE Returned(Dedup([i \in 1..Len(ext.list) |-> Scored(ext.list[i], cat, nowT)],
                            1, {}))

\* lines 218-219
IsError(a) == a.kind = "error"
IsNoError(a) == a.kind # "error"
ErrorsOf(l) == LET m == SelectSeq(l, IsError) IN [i \in 1..Len(m) |-> m[i].error]
WithoutErrors(l) == SelectSeq(l, IsNoError)

(***************************************************************************)
(* @st.cache_data(ttl=300) on fetch_hn and fetch_reddit: a read-through    *)
(* cache keyed by the function and its arguments.  A call reads the entry  *)
(* of its key; on a miss it takes the key's compute lock, reads again,     *)
(* and only then runs the adapter and writes the result with the time of   *)
(* the write.  An entry is readable while the clock is before              *)
(* stamp + ttl.  A call that raises writes nothing.                        *)
(***************************************************************************)
TTL == 300
NoEntry == [present |-> FALSE, value |-> <<>>, stamp |-> 0]
Entry(v, t) == [present |-> TRUE, value |-> v, stamp |-> t]
\* an entry that never expires
FreshForever(e, t) == e.present
Fresh(e, t) == e.present /\ t < e.stamp + TTL

(***************************************************************************)
(* matches_keywords and the filter loop                                    *)
(***************************************************************************)
IsSpace(c) == c = " "
RECURSIVE LStrip(_)
LStrip(q) == IF q # <<>> /\ IsSpace(Head(q)) THEN LStrip(Tail(q)) ELSE q
RECURSIVE RStrip(_)
RStrip(q) == IF q # <<>> /\ IsSpace(q[Len(q)]) THEN RStrip(SubSeq(q, 1, Len(q) - 1)) ELSE q
\* str.strip()
Strip(q) == RStrip(LStrip(q))

\* str.lower(), on the letters the inputs use
LowerChar(c) == IF c = "A" THEN "a" ELSE IF c = "B" THEN "b" ELSE c
Lower(q) == [i \in 1..Len(q) |-> LowerChar(q[i])]

\* str.split(","): one part more than there are commas
RECURSIVE Split(_, _)
Split(q, cur) ==
    IF q = <<>> THEN <<cur>>
    ELSE IF Head(q) = "," THEN <<cur>> \o Split(Tail(q), <<>>)
    ELSE Split(Tail(q), Append(cur, Head(q)))

\* k in t
Contains(t, k) == \E i \in 0..(Len(t) - Len(k)) : SubSeq(t, i + 1, i + Len(k)) = k

NonBlank(k) == Strip(k) # <<>>
\* line 233
Keywords(csv) ==
    LET parts == SelectSeq(Split(csv, <<>>), NonBlank)
    IN  [i \in 1..Len(parts) |-> Lower(Strip(parts[i]))]

\* an exclude filter that rejects only a title holding every keyword
matches_keywords_all(text, keywords_csv, must_include) ==
    IF Strip(keywords_csv) = <<>> THEN TRUE
    ELSE LET kws == Keywords(keywords_csv)
             t == Lower(text)
         IN  IF kws = <<>> THEN TRUE
             ELSE IF must_include THEN \E i \in 1..Len(kws) : Contains(t, kws[i])
             ELSE ~(\A i \in 1..Len(kws) : Contains(t, kws[i]))

matches_keywords(text, keywords_csv, must_include) ==
    IF Strip(keywords_csv) = <<>> THEN TRUE
    ELSE LET kws == Keywords(keywords_csv)
             t == Lower(text)
             any == \E i \in 1..Len(kws) : Contains(t, kws[i])
         IN  IF kws = <<>> THEN TRUE
             ELSE IF must_include THEN any ELSE ~any

\* lines 242-250
FilterItems(l, inc, exc) ==
    LET Keep(a) == /\ matches_keywords(TitleOf(a), inc, TRUE)
                   /\ matches_keywords(TitleOf(a), exc, FALSE)
    IN  SelectSeq(l, Keep)

(***************************************************************************)
(* The sort, lines 253-258.  list.sort(key, reverse=True) is stable: it    *)
(* orders by descending key and leaves records of equal key in the order   *)
(* they had.  Comparing an offset-naive with an offset-aware datetime      *)
(* raises TypeError.                                                       *)
(***************************************************************************)
Epoch0 == AwareDt(0)
PointsKey(x) == IF x.points.some /\ x.points.n # 0 THEN x.points.n ELSE 0
NewestKey(x) == IF x.published_at.some THEN x.published_at ELSE Epoch0
ScoreKey(x) == IF x.score.some /\ x.score.v # 0 THEN x.score.v ELSE 0

KeyNum(x, mode) ==
    IF mode = "Points" THEN PointsKey(x)
    ELSE IF mode = "Newest" THEN NewestKey(x).t
    ELSE ScoreKey(x)

\* the position of x among the records sorted so far: behind every record
\* whose key is not smaller
RECURSIVE InsertDesc(_, _, _)
InsertDesc(sorted, x, mode) ==
    IF sorted = <<>> THEN <<x>>
    ELSE IF KeyNum(Head(sorted), mode) >= KeyNum(x, mode)
         THEN <<Head(sorted)>> \o InsertDesc(Tail(sorted), x, mode)
         ELSE <<x>> \o sorted

RECURSIVE SortDesc(_, _, _)
SortDesc(l, n, mode) ==
    IF n = 0 THEN <<>> ELSE InsertDesc(SortDesc(l, n - 1, mode), l[n], mode)

\* the keys of a Newest sort cannot all be compared
SortRaises(l, mode) ==
    /\ mode = "Newest"
    /\ \E i, j \in 1..Len(l) : NewestKey(l[i]).aware /\ ~NewestKey(l[j]).aware

(***************************************************************************)
(* Pagination, lines 260-263                                               *)
(***************************************************************************)
\* l[start:end] for start, end >= 0
PySlice(l, start, end) ==
    LET lo == Min(start, Len(l))
        hi == Min(end, Len(l))
    IN  IF hi <= lo THEN <<>> ELSE SubSeq(l, lo + 1, hi)

\* a 0-based page number
PageStartZeroBased(p, size) == p * size
PageStart(p, size) == (p - 1) * size
PageOf(l, p, size) == PySlice(l, PageStart(p, size), PageStart(p, size) + size)

(***************************************************************************)
(* Inputs of the adapters.                                                 *)
(***************************************************************************)
LongTitle(c) == [i \in 1..KeyTitleLen |-> "a"] \o <<c>>
ShortTitle == <<"A", "i", " ", "b">>
UrlA == <<"https://a.example/1">>
UrlB == <<"https://b.example/2">>
Author == SomeStr(<<"pg">>)
\* two of the six categories: one with two subreddits, one with one
DEFAULT_CATEGORIES == [general |-> <<"news", "worldnews">>, science |-> <<"science">>]
Categories == DOMAIN DEFAULT_CATEGORIES
Range(q) == {q[i] : i \in 1..Len(q)}
Subreddits == UNION {Range(DEFAULT_CATEGORIES[c]) : c \in Categories}
ClockNow == 3 * Day

RECURSIVE SeqsUpTo(_, _)
SeqsUpTo(S, n) ==
    IF n = 0 THEN {<<>>}
    ELSE LET shorter == SeqsUpTo(S, n - 1)
         IN  shorter \cup {Append(q, x) : q \in {r \in shorter : Len(r) = n - 1}, x \in S}

MaxHits == 2

HNHits ==
    { HNHit(TRUE, SomeStr(UrlA), SomeStr(LongTitle("x")), IntNum(1000), IntNum(3), Author,
            SomeStr(<<"41">>), IsoStr(ClockNow, "Z")),
      HNHit(TRUE, NoneStr, NoneStr, NoneNum, NoneNum, NoneStr, SomeStr(<<"42">>), NoneIso),
      HNHit(TRUE, SomeStr(<<>>), SomeStr(<<>>), NumStr(12), IntNum(0), Author, NoneStr,
            IsoStr(ClockNow, "")),
      HNHit(TRUE, SomeStr(UrlB), SomeStr(ShortTitle), BadNum, IntNum(1), Author,
            SomeStr(<<"43">>), IsoStr(ClockNow, "+01:00")),
      HNHit(TRUE, SomeStr(UrlB), SomeStr(ShortTitle), IntNum(7), BadNum, Author,
            SomeStr(<<"44">>), IsoStr(ClockNow, "garbage")),
      HNHit(FALSE, NoneStr, NoneStr, NoneNum, NoneNum, NoneStr, NoneStr, NumberIso) }

AbsentLink == [kind |-> "absent", s |-> <<>>]
NullLink == [kind |-> "null", s |-> <<>>]
Link(s) == [kind |-> "str", s |-> s]

RedditChildren ==
    { RedditChild(TRUE, "object", SomeStr(LongTitle("x")), SomeStr(UrlA), SomeStr(UrlB),
                  Link(<<"/r/x/1">>), IntNum(50), IntNum(49), IntNum(2), Author,
                  IntNum(ClockNow)),
      RedditChild(TRUE, "object", NoneStr, NoneStr, SomeStr(UrlB), AbsentLink,
                  NoneNum, IntNum(7), NoneNum, NoneStr, NoneNum),
      RedditChild(TRUE, "object", SomeStr(ShortTitle), NoneStr, NoneStr, Link(<<"/r/x/2">>),
                  IntNum(0), NumStr(0), NumStr(4), Author, NumStr(ClockNow - Hour)),
      RedditChild(TRUE, "object", SomeStr(ShortTitle), NoneStr, SomeStr(<<>>), NullLink,
                  NoneNum, BadNum, IntNum(1), Author, BadNum),
      RedditChild(TRUE, "absent", NoneStr, NoneStr, NoneStr, AbsentLink,
                  NoneNum, NoneNum, NoneNum, NoneStr, NoneNum),
      RedditChild(TRUE, "null", NoneStr, NoneStr, NoneStr, AbsentLink,
                  NoneNum, NoneNum, NoneNum, NoneStr, NoneNum),
      RedditChild(FALSE, "absent", NoneStr, NoneStr, NoneStr, AbsentLink,
                  NoneNum, NoneNum, NoneNum, NoneStr, NoneNum) }

Responses(pool) ==
    {FailResp(k) : k \in FailKinds}
    \cup {JsonResp("list", "absent", "absent", <<>>), JsonResp("null", "absent", "absent", <<>>),
          JsonResp("object", "absent", "absent", <<>>), JsonResp("object", "null", "absent", <<>>),
          JsonResp("object", "object", "absent", <<>>), JsonResp("object", "object", "null", <<>>)}
    \cup {JsonResp("object", "object", "list", q) : q \in SeqsUpTo(pool, MaxHits)}

(***************************************************************************)
(* The values of the variables a specification does not use.               *)
(***************************************************************************)
NoOut == [kind |-> "none", raised |-> FALSE, v |-> 0]
ScoreIdle == s_dt = NoneDt /\ s_points = NoneInt /\ s_out = NoOut
NoResp == FailResp("none")
NoResult == [raised |-> FALSE, exc |-> "none", list |-> <<>>]
FetchIdle == f_src = "" /\ f_resp = NoResp /\ f_result = NoResult
QueryIdle ==
    /\ include_kw = <<>> /\ exclude_kw = <<>> /\ sort_by = "" /\ page_size = 0 /\ page = 0
    /\ q_in = <<>> /\ q_raised = "" /\ total = 0 /\ page_items = <<>>
CacheIdle ==
    /\ cache = <<>> /\ lock = <<>> /\ sess = <<>>
    /\ calls = <<>> /\ entries = <<>> /\ served = <<>>
AggIdle ==
    /\ category = "" /\ user_subs = <<>> /\ enable_hn = FALSE /\ enable_reddit = FALSE
    /\ a_resp = <<>> /\ a_raised = "" /\ items = <<>> /\ errors = <<>>

(***************************************************************************)
(* Specification of the adapters: one call of an adapter, for every        *)
(* outcome of its HTTP exchange.                                           *)
(***************************************************************************)
InitFetch ==
    /\ QueryIdle
    /\ CacheIdle
    /\ ScoreIdle
    /\ AggIdle
    /\ FetchIdle
    /\ now = ClockNow
    /\ pc = "fetch"

CallFetchHN ==
    /\ pc = "fetch"
    /\ \E resp \in Responses(HNHits) :
          /\ f_resp' = resp
          /\ f_result' = fetch_hn(HNBody(resp))
    /\ f_src' = "hn"
    /\ pc' = "fetched"
    /\ UNCHANGED <<now, scoreVars, aggVars, cacheVars, queryVars>>

CallFetchReddit ==
    /\ pc = "fetch"
    /\ \E sub \in Subreddits, resp \in Responses(RedditChildren) :
          /\ f_src' = sub
          /\ f_resp' = resp
          /\ f_result' = fetch_reddit(sub, RedditBody(resp))
    /\ pc' = "fetched"
    /\ UNCHANGED <<now, scoreVars, aggVars, cacheVars, queryVars>>

NextFetch == CallFetchHN \/ CallFetchReddit

SpecFetch == InitFetch /\ [][NextFetch]_vars

\* C2: an adapter never raises past its boundary: whatever the HTTP exchange
\* gave, it returns a list of article records or a one-element list holding an
\* "__error__" marker whose message names the source that failed.
IsArticleList(l) == \A i \in 1..Len(l) : l[i].kind = "article"
IsMarkerFor(l, src) ==
    /\ Len(l) = 1
    /\ l[1].kind = "error"
    /\ IF src = "hn" THEN l[1].error[1] = "HN fetch failed: "
       ELSE l[1].error[1] = "r/" /\ l[1].error[2] = src
C2_AdaptersNeverRaise ==
    pc = "fetched" =>
        /\ ~f_result.raised
        /\ IsArticleList(f_result.list) \/ IsMarkerFor(f_result.list, f_src)

(***************************************************************************)
(* Specification of the aggregation: one run of lines 211-219, for every   *)
(* choice of the sidebar and every outcome of the adapters' exchanges.     *)
(***************************************************************************)
MaxFetched == 2

AggHNHits ==
    { HNHit(TRUE, SomeStr(UrlA), SomeStr(LongTitle("x")), IntNum(1000), IntNum(3), Author,
            SomeStr(<<"41">>), IsoStr(ClockNow, "Z")),
      HNHit(TRUE, SomeStr(UrlB), SomeStr(LongTitle("x")), NoneNum, IntNum(1), Author,
            SomeStr(<<"43">>), IsoStr(ClockNow - Day, "")) }

\* a hit whose title differs from LongTitle("x") behind the 80th character
HNHitY ==
    HNHit(TRUE, SomeStr(UrlA), SomeStr(LongTitle("y")), IntNum(5), IntNum(0), Author,
          SomeStr(<<"42">>), NoneIso)

AggRedditChildren ==
    { RedditChild(TRUE, "object", SomeStr(LongTitle("x")), NoneStr, SomeStr(UrlA),
                  Link(<<"/r/x/1">>), IntNum(50), IntNum(50), IntNum(2), Author,
                  IntNum(ClockNow)),
      RedditChild(TRUE, "object", SomeStr(LongTitle("y")), SomeStr(UrlA), SomeStr(UrlB),
                  Link(<<"/r/x/2">>), NoneNum, IntNum(7), IntNum(0), Author,
                  IntNum(ClockNow - Hour)) }

ShortChild ==
    RedditChild(TRUE, "object", SomeStr(ShortTitle), NoneStr, SomeStr(UrlB),
                Link(<<"/r/x/3">>), IntNum(3), NoneNum, IntNum(0), Author, NoneNum)

\* a post dated 720 days ahead of the clock
FutureChild ==
    RedditChild(TRUE, "object", SomeStr(ShortTitle), NoneStr, SomeStr(UrlB),
                Link(<<"/r/x/4">>), IntNum(1), NoneNum, IntNum(0), Author,
                IntNum(ClockNow + 720 * Day))

\* the exchanges of a source: a timeout, a malformed body, the lists of up to
\* MaxFetched records of the pool, and the lists of one further record
AggResponses(src) ==
    {FailResp("ReadTimeout"), JsonResp("list", "absent", "absent", <<>>)}
    \cup {JsonResp("object", "object", "list", q) :
             q \in SeqsUpTo(IF src = "hn" THEN AggHNHits ELSE AggRedditChildren, MaxFetched)}
    \cup {JsonResp("object", "object", "list", <<x>>) :
             x \in (IF src = "hn" THEN {HNHitY} ELSE {ShortChild, FutureChild})}

\* one exchange for every source of S
RECURSIVE RespMaps(_)
RespMaps(S) ==
    IF S = {} THEN {<<>>}
    ELSE LET x == CHOOSE y \in S : TRUE
         IN  {(x :> r) @@ f : r \in AggResponses(x), f \in RespMaps(S \ {x})}

\* the sequences without repetition over the options of the multiselect
RECURSIVE Selections(_)
Selections(S) ==
    {<<>>} \cup UNION {{<<x>> \o q : q \in Selections(S \ {x})} : x \in S}

InitAgg ==
    /\ QueryIdle
    /\ CacheIdle
    /\ ScoreIdle
    /\ FetchIdle
    /\ now = ClockNow
    /\ category \in Categories
    /\ user_subs \in Selections(Range(DEFAULT_CATEGORIES[category]))
    /\ enable_hn \in BOOLEAN
    /\ enable_reddit \in BOOLEAN
    /\ a_resp = <<>>
    /\ a_raised = ""
    /\ items = <<>>
    /\ errors = <<>>
    /\ pc = "aggregate"

\* lines 211-215
Aggregate ==
    /\ pc = "aggregate"
    /\ enable_hn \/ enable_reddit
    /\ LET srcs == SourcesOf(enable_hn, enable_reddit, user_subs)
       IN  \E resp \in RespMaps(Range(srcs)) :
              /\ a_resp' = resp
              /\ LET r == aggregate(category, enable_hn, enable_reddit, user_subs, resp, now)
                 IN  /\ a_raised' = (IF r.raised THEN r.exc ELSE "")
                     /\ items' = r.list
                     /\ pc' = (IF r.raised THEN "raised" ELSE "aggregated")
    /\ UNCHANGED <<now, scoreVars, fetchVars, cacheVars, queryVars, category, user_subs, enable_hn, enable_reddit,
                   errors>>

\* lines 212-213
NoSource ==
    /\ pc = "aggregate"
    /\ ~(enable_hn \/ enable_reddit)
    /\ items' = <<>>
    /\ pc' = "aggregated"
    /\ UNCHANGED <<now, scoreVars, fetchVars, cacheVars, queryVars, category, user_subs, enable_hn, enable_reddit,
                   a_resp, a_raised, errors>>

\* lines 218-219
SurfaceErrors ==
    /\ pc = "aggregated"
    /\ errors' = ErrorsOf(items)
    /\ items' = WithoutErrors(items)
    /\ pc' = "surfaced"
    /\ UNCHANGED <<now, scoreVars, fetchVars, cacheVars, queryVars, category, user_subs, enable_hn, enable_reddit,
                   a_resp, a_raised>>

NextAgg == Aggregate \/ NoSource \/ SurfaceErrors

SpecAgg == InitAgg /\ [][NextAgg]_vars

(***************************************************************************)
(* Properties of the aggregation.                                          *)
(***************************************************************************)
\* the fetch order: the enabled subreddits in list order, then Hacker News
FetchOrder ==
    (IF enable_reddit THEN user_subs ELSE <<>>) \o (IF enable_hn THEN <<"hn">> ELSE <<>>)

RECURSIVE ReturnedBy(_, _)
ReturnedBy(order, i) ==
    IF i > Len(order) THEN <<>>
    ELSE FetchOf(order[i], a_resp[order[i]]).list \o ReturnedBy(order, i + 1)

\* the records the adapters returned, in fetch order, with score and category
Fetched ==
    LET all == ReturnedBy(FetchOrder, 1)
    IN  [i \in 1..Len(all) |-> Scored(all[i], category, now)]

\* the de-duplication key as the data model states it
DedupKey(a) ==
    LET t == IF a.title.some THEN a.title.s ELSE <<>>
    IN  [url |-> a.url, head |-> [i \in 1..(IF Len(t) < 80 THEN Len(t) ELSE 80) |-> t[i]]]

FirstSeen(F) == {i \in 1..Len(F) : \A j \in 1..(i - 1) : DedupKey(F[j]) # DedupKey(F[i])}
\* the k-th smallest element of a set of indices
Nth(I, k) == CHOOSE i \in I : Cardinality({j \in I : j <= i}) = k

\* C1: the list aggregate returns never holds two records with the same
\* (url, title[:80]) key; the record kept for a key is the first one in fetch
\* order (subreddits in list order, then Hacker News), and the kept records
\* stand in the order in which they were fetched.
C1_DedupFirstSeen ==
    (pc = "aggregated" /\ (enable_hn \/ enable_reddit)) =>
        /\ \A i, j \in 1..Len(items) : i < j => DedupKey(items[i]) # DedupKey(items[j])
        /\ Len(items) = Cardinality(FirstSeen(Fetched))
        /\ \A k \in 1..Len(items) : items[k] = Fetched[Nth(FirstSeen(Fetched), k)]

\* a later record of another source, with another title, fell to the key of
\* an earlier one
C1_Witness ==
    /\ pc = "aggregated"
    /\ \E i, j \in 1..Len(Fetched) :
          /\ i < j
          /\ Fetched[i].kind = "article" /\ Fetched[j].kind = "article"
          /\ DedupKey(Fetched[i]) = DedupKey(Fetched[j])
          /\ Fetched[i].source # Fetched[j].source
          /\ Fetched[i].title # Fetched[j].title

\* the sources whose adapter returned an error marker
FailedSources == {x \in DOMAIN a_resp : a_resp[x].kind # "json"}
Names(msg, x) ==
    IF x = "hn" THEN msg[1] = "HN fetch failed: " ELSE msg[1] = "r/" /\ msg[2] = x

\* C3: for any set of failing sources the error list holds the message of
\* every failing source, one per failing source, and the article list holds
\* the de-duplicated records of the sources that succeeded and no marker.
C3_EveryFailureSurfaced ==
    pc = "surfaced" =>
        /\ \A x \in FailedSources : \E i \in 1..Len(errors) : Names(errors[i], x)
        /\ Len(errors) = Cardinality(FailedSources)
        /\ \A i \in 1..Len(items) : items[i].kind = "article"
        /\ LET ok == SelectSeq(Fetched, IsNoError)
           IN  /\ Len(items) = Cardinality(FirstSeen(ok))
               /\ \A k \in 1..Len(items) : items[k] = ok[Nth(FirstSeen(ok), k)]

\* the record of the scenario, as each adapter returns it
HNList == fetch_hn(HNBody(a_resp["hn"])).list
RedditList(sub) == fetch_reddit(sub, RedditBody(a_resp[sub])).list
Near(x, y, eps) == x - y <= eps /\ y - x <= eps

\* HN returns one record with points=1000 published now, and the adapter of an
\* enabled subreddit returns a record with the same url and title, points=50
Scenario ==
    /\ enable_hn /\ enable_reddit
    /\ "hn" \in DOMAIN a_resp
    /\ ~fetch_hn(HNBody(a_resp["hn"])).raised
    /\ Len(HNList) = 1
    /\ HNList[1].kind = "article"
    /\ HNList[1].points = SomeInt(1000)
    /\ HNList[1].published_at = AwareDt(now)
    /\ \E k \in 1..Len(user_subs) :
          /\ ~fetch_reddit(user_subs[k], RedditBody(a_resp[user_subs[k]])).raised
          /\ \E i \in 1..Len(RedditList(user_subs[k])) :
                LET r == RedditList(user_subs[k])[i]
                IN  /\ r.kind = "article"
                    /\ r.url = HNList[1].url /\ r.title = HNList[1].title
                    /\ r.points = SomeInt(50)

\* C4, as stated: in the scenario the aggregate holds exactly one article for
\* the key and it is the Hacker News record: points 1000, popularity score
\* log10(1000)*100 = 300, total score about 400.
C4_HackerNewsRecordKept ==
    (pc = "aggregated" /\ Scenario) =>
        LET at == {i \in 1..Len(items) : DedupKey(items[i]) = DedupKey(HNList[1])}
        IN  /\ Cardinality(at) = 1
            /\ \A i \in at :
                  /\ items[i].source = <<"Hacker News">>
                  /\ items[i].points = SomeInt(1000)
                  /\ normalize_points(items[i].points) = 30000
                  /\ Near(items[i].score.v, 40000, 100)

\* the scenario with nothing left open: one subreddit is enabled, each adapter
\* returns exactly one record, and both records are published now
ScenarioExact ==
    /\ Scenario
    /\ Len(user_subs) = 1
    /\ Len(RedditList(user_subs[1])) = 1
    /\ RedditList(user_subs[1])[1].published_at = AwareDt(now)

\* C4, amended: in the scenario the aggregate holds exactly one article and it
\* is the Reddit record, fetched first: points 50, popularity score
\* log10(50)*100, about 170, total score about 270.
C4_RedditRecordKept ==
    ScenarioExact =>
        /\ pc \in {"aggregated", "surfaced"}
        /\ Len(items) = 1
        /\ items[1].source = <<"r/", user_subs[1]>>
        /\ items[1].points = SomeInt(50)
        /\ Near(normalize_points(items[1].points), 16990, 10)
        /\ Near(items[1].score.v, 26990, 10)

C4_Witness == pc = "aggregated" /\ ScenarioExact

(***************************************************************************)
(* Specification of the cache: sessions (one script run each, in threads   *)
(* of their own) call the cached adapters while the clock advances.        *)
(***************************************************************************)
MaxClock == 450
MaxCalls == 2
Sessions == {"s1", "s2"}
Keys == {"hn", "news"}
Free == "free"

CacheResponses(k) ==
    {FailResp("ReadTimeout"), JsonResp("list", "absent", "absent", <<>>),
     JsonResp("object", "object", "list", <<>>)}

Idle == [pc |-> "idle", key |-> ""]
NotServed == [key |-> "", at |-> 0, value |-> <<>>]
Served(k, t, v) == [key |-> k, at |-> t, value |-> v]

InitCache ==
    /\ QueryIdle
    /\ ScoreIdle
    /\ FetchIdle
    /\ AggIdle
    /\ now = 0
    /\ pc = "serving"
    /\ cache = [k \in Keys |-> NoEntry]
    /\ lock = [k \in Keys |-> Free]
    /\ sess = [x \in Sessions |-> Idle]
    /\ calls = [k \in Keys |-> 0]
    /\ entries = [k \in Keys |-> {}]
    /\ served = [x \in Sessions |-> NotServed]

\* the call reads the cache: a hit is served, a miss goes for the lock
Request(x, k) ==
    /\ sess[x].pc = "idle"
    /\ IF Fresh(cache[k], now)
       THEN /\ served' = [served EXCEPT ![x] = Served(k, now, cache[k].value)]
            /\ UNCHANGED sess
       ELSE /\ sess' = [sess EXCEPT ![x] = [pc |-> "wait", key |-> k]]
            /\ UNCHANGED served
    /\ UNCHANGED <<now, pc, scoreVars, fetchVars, aggVars, queryVars, cache, lock, calls, entries>>

\* with the lock the call reads again; on a second miss it runs the adapter,
\* which issues the HTTP request
Acquire(x) ==
    /\ sess[x].pc = "wait"
    /\ lock[sess[x].key] = Free
    /\ LET k == sess[x].key
       IN  IF Fresh(cache[k], now)
           THEN /\ served' = [served EXCEPT ![x] = Served(k, now, cache[k].value)]
                /\ sess' = [sess EXCEPT ![x] = Idle]
                /\ UNCHANGED <<lock, calls>>
           ELSE /\ calls[k] < MaxCalls
                /\ lock' = [lock EXCEPT ![k] = x]
                /\ sess' = [sess EXCEPT ![x] = [pc |-> "call", key |-> k]]
                /\ calls' = [calls EXCEPT ![k] = @ + 1]
                /\ UNCHANGED served
    /\ UNCHANGED <<now, pc, scoreVars, fetchVars, aggVars, queryVars, cache, entries>>

\* the exchange ends: the adapter returns and its result is written and
\* handed out, or it raises and nothing is written
Finish(x) ==
    /\ sess[x].pc = "call"
    /\ LET k == sess[x].key
       IN  \E resp \in CacheResponses(k) :
              LET r == FetchOf(k, resp)
              IN  IF r.raised
                  THEN UNCHANGED <<cache, entries, served>>
                  ELSE /\ cache' = [cache EXCEPT ![k] = Entry(r.list, now)]
                       /\ entries' = [entries EXCEPT ![k] = @ \cup {Entry(r.list, now)}]
                       /\ served' = [served EXCEPT ![x] = Served(k, now, r.list)]
    /\ lock' = [lock EXCEPT ![sess[x].key] = Free]
    /\ sess' = [sess EXCEPT ![x] = Idle]
    /\ UNCHANGED <<now, pc, scoreVars, fetchVars, aggVars, queryVars, calls>>

Tick ==
    /\ now + TTL \div 2 <= MaxClock
    /\ now' = now + TTL \div 2
    /\ UNCHANGED <<pc, scoreVars, fetchVars, aggVars, cacheVars, queryVars>>

NextCache ==
    \/ \E x \in Sessions, k \in Keys : Request(x, k)
    \/ \E x \in Sessions : Acquire(x)
    \/ \E x \in Sessions : Finish(x)
    \/ Tick

SpecCache == InitCache /\ [][NextCache]_vars

CacheRunning == pc = "serving"
InWindow(e, t) == e.stamp <= t /\ t < e.stamp + 300

\* the state part of C5: one call in flight per key at most; the windows of a
\* key's entries are disjoint; the result a caller was handed at time t is the
\* value of the entry of its key whose window holds t; the cache holds the
\* latest entry written.  (A call that raises writes no entry and so opens no
\* window.)
C5_State ==
    CacheRunning =>
        /\ \A k \in Keys :
            /\ Cardinality({x \in Sessions : sess[x].pc = "call" /\ sess[x].key = k}) <= 1
            /\ \A e1, e2 \in entries[k] :
                  e1 # e2 => ~InWindow(e1, e2.stamp)
            /\ cache[k].present =>
                  /\ cache[k] \in entries[k]
                  /\ \A e \in entries[k] : e.stamp <= cache[k].stamp
        /\ \A x \in Sessions :
              served[x] # NotServed =>
                  \E e \in entries[served[x].key] :
                      InWindow(e, served[x].at) /\ served[x].value = e.value

\* the step part of C5: an outbound call for a key is issued only when the
\* cache holds no entry for the key whose window contains the present time;
\* a result written replaces the entry of its key, with the present time;
\* and a request that is answered after the expiry of the entry is answered
\* with the result of a fresh call
C5_Step ==
    CacheRunning =>
        /\ \A k \in Keys :
            /\ calls'[k] # calls[k] =>
                  ~(cache[k].present /\ InWindow(cache[k], now))
            /\ cache'[k] # cache[k] =>
                  /\ ~(cache[k].present /\ InWindow(cache[k], now))
                  /\ cache'[k].present /\ cache'[k].stamp = now
        /\ \A x \in Sessions :
              (served'[x] # served[x] /\ ~InWindow(cache[served'[x].key], now)) =>
                  /\ sess[x].pc = "call"
                  /\ cache'[served'[x].key] = Entry(served'[x].value, now)

MaxCsvLen == 3
MaxKwItems == 2
CsvChars == {"a", "B", ",", " "}
KwTitles == {<<"A", "b">>, <<"b", " ", "c">>, <<"c">>}
Titled(t) == Scored(Article(t, UrlA, <<"Hacker News">>, 10, 0, Author, AwareDt(ClockNow)),
                    "general", ClockNow)

InitKw ==
    /\ ScoreIdle /\ FetchIdle /\ CacheIdle
    /\ now = ClockNow
    /\ pc = "filter"
    /\ items \in SeqsUpTo({Titled(t) : t \in KwTitles}, MaxKwItems)
    /\ \E c \in SeqsUpTo(CsvChars, MaxCsvLen) :
          \/ include_kw = c /\ exclude_kw = <<>>
          \/ include_kw = <<>> /\ exclude_kw = c
          \/ include_kw = c /\ exclude_kw = c
    /\ sort_by = "" /\ page_size = 0 /\ page = 0
    /\ q_in = <<>> /\ q_raised = "" /\ total = 0 /\ page_items = <<>>
    /\ category = "" /\ user_subs = <<>> /\ enable_hn = FALSE /\ enable_reddit = FALSE
    /\ a_resp = <<>> /\ a_raised = "" /\ errors = <<>>

KeywordFilter ==
    /\ pc = "filter"
    /\ q_in' = items
    /\ items' = FilterItems(items, include_kw, exclude_kw)
    /\ pc' = "filtered"
    /\ UNCHANGED <<now, scoreVars, fetchVars, cacheVars, category, user_subs, enable_hn,
                   enable_reddit, a_resp, a_raised, errors, include_kw, exclude_kw, sort_by,
                   page_size, page, q_raised, total, page_items>>

NextKw == KeywordFilter

SpecKw == InitKw /\ [][NextKw]_vars

\* the string holds a keyword: a character that is neither a comma nor blank
HasKeyword(c) == \E i \in 1..Len(c) : c[i] # "," /\ c[i] # " "
TheCsv == IF include_kw # <<>> THEN include_kw ELSE exclude_kw

\* C9: for a keyword string that holds a keyword, matches_keywords with
\* must_include=True passes a title exactly when must_include=False rejects
\* it, so the include filter and the exclude filter with the same string split
\* a list into two disjoint parts that cover it; a string that is empty or
\* holds no keyword makes both filters pass every article.
C9_IncludeExcludeInverse ==
    pc = "filtered" =>
        LET c == TheCsv
            inc == FilterItems(q_in, c, <<>>)
            exc == FilterItems(q_in, <<>>, c)
        IN  /\ items = (IF exclude_kw = <<>> THEN inc
                        ELSE IF include_kw = <<>> THEN exc
                        ELSE FilterItems(inc, <<>>, c))
            /\ IF HasKeyword(c)
               THEN /\ \A i \in 1..Len(q_in) :
                          matches_keywords(TitleOf(q_in[i]), c, TRUE)
                              # matches_keywords(TitleOf(q_in[i]), c, FALSE)
                    /\ Len(inc) + Len(exc) = Len(q_in)
                    /\ \A i \in 1..Len(inc), j \in 1..Len(exc) :
                          matches_keywords(TitleOf(inc[i]), c, TRUE)
                              /\ ~matches_keywords(TitleOf(exc[j]), c, TRUE)
                    /\ (include_kw = c /\ exclude_kw = c) => items = <<>>
               ELSE /\ \A i \in 1..Len(q_in) :
                          /\ matches_keywords(TitleOf(q_in[i]), c, TRUE)
                          /\ matches_keywords(TitleOf(q_in[i]), c, FALSE)
                    /\ items = q_in

\* an include filter kept one article and dropped another, on a string with
\* blanks, an empty part and an upper-case keyword
C9_Witness ==
    /\ pc = "filtered"
    /\ include_kw = <<" ", ",", "B">> /\ exclude_kw = <<>>
    /\ Len(q_in) = 2 /\ Len(items) = 1

(***************************************************************************)
(* Specification of the sort: lines 253-258 on every short list of         *)
(* records, in every mode.                                                 *)
(***************************************************************************)
MaxSortItems == 3
SortModes == {"Score (default)", "Points", "Newest"}
SortPool ==
    { Scored(Article(<<"p">>, UrlA, <<"Hacker News">>, 10, 0, Author, AwareDt(ClockNow)),
             "general", ClockNow),
      Scored(Article(<<"q">>, UrlB, <<"r/", "news">>, 10, 0, Author, AwareDt(ClockNow)),
             "general", ClockNow),
      Scored(Article(<<"r">>, UrlA, <<"r/", "news">>, 100, 0, Author, NoneDt),
             "general", ClockNow),
      Scored(Article(<<"s">>, UrlB, <<"Hacker News">>, 0, 0, Author, AwareDt(-Day)),
             "general", ClockNow),
      Scored(Article(<<"t">>, UrlB, <<"Hacker News">>, 1000, 0, Author, NaiveDt(ClockNow - Day)),
             "general", ClockNow) }

InitSort ==
    /\ ScoreIdle /\ FetchIdle /\ CacheIdle
    /\ now = ClockNow
    /\ pc = "sort"
    /\ items \in SeqsUpTo(SortPool, MaxSortItems)
    /\ sort_by \in SortModes
    /\ include_kw = <<>> /\ exclude_kw = <<>> /\ page_size = 0 /\ page = 0
    /\ q_in = <<>> /\ q_raised = "" /\ total = 0 /\ page_items = <<>>
    /\ category = "" /\ user_subs = <<>> /\ enable_hn = FALSE /\ enable_reddit = FALSE
    /\ a_resp = <<>> /\ a_raised = "" /\ errors = <<>>

SortMode == IF sort_by = "Points" THEN "Points" ELSE IF sort_by = "Newest" THEN "Newest" ELSE "Score"

Sort ==
    /\ pc = "sort"
    /\ q_in' = items
    /\ IF SortRaises(items, SortMode)
       THEN /\ q_raised' = "TypeError"
            /\ pc' = "sort raised"
            /\ UNCHANGED items
       ELSE /\ items' = SortDesc(items, Len(items), SortMode)
            /\ pc' = "sorted"
            /\ UNCHANGED q_raised
    /\ UNCHANGED <<now, scoreVars, fetchVars, cacheVars, category, user_subs, enable_hn,
                   enable_reddit, a_resp, a_raised, errors, include_kw, exclude_kw, sort_by,
                   page_size, page, total, page_items>>

NextSort == Sort

SpecSort == InitSort /\ [][NextSort]_vars

SortEnded == pc \in {"sorted", "sort raised"}

\* the key of the selected mode, for records whose keys can be compared
ModeKey(x) ==
    IF sort_by = "Points" THEN (IF x.points.some THEN x.points.n ELSE 0)
    ELSE IF sort_by = "Newest" THEN (IF x.published_at.some THEN x.published_at.t ELSE 0)
    ELSE (IF x.score.some THEN x.score.v ELSE 0)

Perms(n) == {f \in [1..n -> 1..n] : \A i, j \in 1..n : i # j => f[i] # f[j]}

\* C7: in every mode the sort stage puts out a permutation of its input in
\* non-increasing order of the mode's key, with records of equal key in the
\* order they had.
C7_StableDescendingSort ==
    SortEnded =>
        /\ pc = "sorted"
        /\ Len(items) = Len(q_in)
        /\ \A i \in 1..(Len(items) - 1) : ModeKey(items[i]) >= ModeKey(items[i + 1])
        /\ \E f \in Perms(Len(q_in)) :
              /\ \A i \in 1..Len(items) : items[i] = q_in[f[i]]
              /\ \A i, j \in 1..Len(items) :
                    (i < j /\ ModeKey(items[i]) = ModeKey(items[j])) => f[i] < f[j]

\* C8: in Newest mode the sort ends without error and every record that has
\* a timestamp, of whatever value, stands before every record that has none.
C8_UnpublishedLast ==
    (SortEnded /\ sort_by = "Newest") =>
        /\ pc = "sorted"
        /\ \A i, j \in 1..Len(items) :
              (items[i].published_at.some /\ ~items[j].published_at.some) => i < j

(***************************************************************************)
(* Specification of the pagination: lines 260-263 on lists of every        *)
(* length up to MaxListLen, for every page size of the slider.             *)
(***************************************************************************)
MaxListLen == 12
MaxPage == 4
PageSizeMin == 5
PageSizeMax == 50
Digits == <<"0", "1", "2", "3", "4", "5", "6", "7", "8", "9">>
Numbered(i) ==
    Scored(Article(<<"n", Digits[(i \div 10) + 1], Digits[(i % 10) + 1]>>,
                   <<"https://a.example/", Digits[(i \div 10) + 1], Digits[(i % 10) + 1]>>,
                   <<"Hacker News">>, 200 - i, 0, Author, AwareDt(ClockNow)),
           "general", ClockNow)

InitPage ==
    /\ ScoreIdle /\ FetchIdle /\ CacheIdle
    /\ now = ClockNow
    /\ pc = "page"
    /\ \E n \in 0..MaxListLen : items = [i \in 1..n |-> Numbered(i)]
    /\ page_size \in PageSizeMin..PageSizeMax
    /\ page \in 1..MaxPage
    /\ include_kw = <<>> /\ exclude_kw = <<>> /\ sort_by = ""
    /\ q_in = <<>> /\ q_raised = "" /\ total = 0 /\ page_items = <<>>
    /\ category = "" /\ user_subs = <<>> /\ enable_hn = FALSE /\ enable_reddit = FALSE
    /\ a_resp = <<>> /\ a_raised = "" /\ errors = <<>>

Paginate ==
    /\ pc = "page"
    /\ total' = Len(items)
    /\ page_items' = PageOf(items, page, page_size)
    /\ pc' = "paged"
    /\ UNCHANGED <<now, scoreVars, fetchVars, cacheVars, category, user_subs, enable_hn,
                   enable_reddit, a_resp, a_raised, errors, items, include_kw, exclude_kw,
                   sort_by, page_size, page, q_in, q_raised>>

NextPage == Paginate

SpecPage == InitPage /\ [][NextPage]_vars

CeilDiv(n, d) == (n + d - 1) \div d
RECURSIVE ConcatPages(_, _, _)
ConcatPages(l, size, upto) ==
    IF upto = 0 THEN <<>> ELSE ConcatPages(l, size, upto - 1) \o PageOf(l, upto, size)

\* C6: page p of size S is the slice [(p-1)*S, p*S) of the list; the pages
\* 1..ceil(N/S) put end to end are the list, without gap or repeat, for every
\* S >= 1; a page beyond ceil(N/S) is empty, and no page is an error.
C6_PagesPartition ==
    pc = "paged" =>
        LET n == Len(items)
            lo == (page - 1) * page_size
            cnt == IF lo >= n THEN 0 ELSE IF page * page_size <= n THEN page_size ELSE n - lo
        IN  /\ total = n
            /\ page_items = [i \in 1..cnt |-> items[lo + i]]
            /\ page > CeilDiv(n, page_size) => page_items = <<>>
            /\ \A size \in 1..PageSizeMax :
                  /\ ConcatPages(items, size, CeilDiv(n, size)) = items
                  /\ PageOf(items, CeilDiv(n, size) + 1, size) = <<>>

\* a list of three pages was cut: the last page is the short one
C6_Witness ==
    /\ pc = "paged"
    /\ Len(items) = 12 /\ page_size = 5 /\ page = 3
    /\ Len(page_items) = 2

(***************************************************************************)
(* Specification of the scorer: one call on arbitrary inputs.              *)
(***************************************************************************)
ScoreNows == {2 * Day, 3 * Day, 800 * Day}
ScoreOffsets == {-720 * Day, -3 * Day, -Day, -2 * Hour, -Hour, 0, Hour, 2 * Hour,
                 5 * Hour, Day, Day + Hour, 2 * Day, 3 * Day, 750 * Day}
\* the timestamps are taken relative to now: ages of at most three days, or
\* beyond the range of math.exp
ScoreDts(n) == {NoneDt} \cup {AwareDt(n - o) : o \in ScoreOffsets}
                        \cup {NaiveDt(n - o) : o \in {0, Hour, Day}}
ScorePoints == {NoneInt} \cup {SomeInt(n) : n \in {-5, 0, 1, 2, 9, 10, 50, 99, 100, 1000, 54321}}

InitScore ==
    /\ QueryIdle
    /\ CacheIdle
    /\ FetchIdle
    /\ AggIdle
    /\ now \in ScoreNows
    /\ s_dt \in ScoreDts(now)
    /\ s_points \in ScorePoints
    /\ s_out = NoOut
    /\ pc = "score"

CallTimeDecay ==
    /\ pc = "score"
    /\ LET r == time_decay_score(s_dt, now)
       IN  s_out' = [kind |-> "time", raised |-> r.raised, v |-> r.v]
    /\ pc' = "scored"
    /\ UNCHANGED <<now, s_dt, s_points, fetchVars, aggVars, cacheVars, queryVars>>

CallNormalizePoints ==
    /\ pc = "score"
    /\ s_out' = [kind |-> "points", raised |-> FALSE, v |-> normalize_points(s_points)]
    /\ pc' = "scored"
    /\ UNCHANGED <<now, s_dt, s_points, fetchVars, aggVars, cacheVars, queryVars>>

NextScore == CallTimeDecay \/ CallNormalizePoints

SpecScore == InitScore /\ [][NextScore]_vars

\* C10: the recency score is 0 when the timestamp is absent; for every
\* timestamp that is present, one later than the moment of scoring included,
\* it lies in (0, 100] and is strictly smaller for every older timestamp.
C10_RecencyBounded ==
    (pc = "scored" /\ s_out.kind = "time") =>
        /\ ~s_out.raised
        /\ IF ~s_dt.some THEN s_out.v = 0
           ELSE /\ 0 < s_out.v /\ s_out.v <= 10000
                /\ \A d \in ScoreDts(now) :
                      (d.some /\ d.t < s_dt.t) =>
                          /\ ~time_decay_score(d, now).raised
                          /\ time_decay_score(d, now).v < s_out.v

====
